---- MODULE Spec2Model ----
(***************************************************************************)
(* UserCryptoVault (components/web/static_files/js/uservault.js): the      *)
(* client-held vault that keeps one ECDH P-256 key pair, wraps its private *)
(* key under a password (PBKDF2 + AES-GCM) and encrypts messages to the    *)
(* pair (ephemeral ECDH + AES-GCM).                                        *)
(*                                                                         *)
(* The WebCrypto primitives are modelled symbolically: a key, a byte       *)
(* buffer or a ciphertext is a record that says how it was made, random    *)
(* draws are fresh identifiers, and AES-GCM decryption succeeds exactly on *)
(* an unmodified ciphertext under the key and iv that produced it.         *)
(*                                                                         *)
(* Every async method is a chain of steps, one per resumption after an     *)
(* await; `task` holds the frame of each call in flight.                   *)
(***************************************************************************)
EXTENDS Naturals, Sequences, FiniteSets

VARIABLES
  keyPair,            \* this.keyPair: Null or [privateKey, publicKey]
  salt,               \* this.salt: Null or 16 random bytes
  iv,                 \* this.iv: Null or 12 random bytes
  wrappedPrivateKey,  \* this.wrappedPrivateKey: Null or an AES-GCM ciphertext
  task,               \* the call frames: one per caller
  nextKey,            \* how many key pairs crypto.subtle.generateKey has made
  nextNonce,          \* how many times crypto.getRandomValues was drawn from
  server,             \* the payload the storage collaborator holds, or Null
  held,               \* history: the ids of the keys this.keyPair has ever held
  blobs               \* history: the blobs encryptData has returned

vault == <<keyPair, salt, iv, wrappedPrivateKey>>
vars ==
  <<keyPair, salt, iv, wrappedPrivateKey, task, nextKey, nextNonce, server, held,
    blobs>>

\* ---------------------------------------------------------------- bounds
\* Key pairs generateKey may make in one run (vault and ephemeral pairs).
MaxKeys == 3
\* Random draws (one per wrap: salt and iv; one per encryptData: iv) in one run.
MaxNonce == 2

Passwords == {"pw1", "pw2"}
Messages == {"", "m"}
Tasks == {"a", "b"}
\* The caller of the specification in which calls run one at a time.
Main == "a"
\* The caller that is an independent trigger.
Trigger == "b"

\* ------------------------------------------------------------- constants
SALT_LENGTH == 16
IV_LENGTH == 12
EPHEMERAL_KEY_LENGTH == 65

\* ------------------------------------------------------------ the values
\* JavaScript's null.
Null == [null |-> TRUE]

\* new Uint8Array(0), and what new Uint8Array(null) gives.
EmptyBytes == [fmt |-> "empty", len |-> 0]

\* Bytes that are no key encoding and no ciphertext.
JunkBytes == [fmt |-> "junk", len |-> 1]

\* crypto.getRandomValues(new Uint8Array(len)): the n-th draw.
RandomValues(len, n) == [fmt |-> "random", len |-> len, id |-> n]

\* crypto.subtle.generateKey({name: "ECDH", namedCurve: "P-256"}, ...): the k-th pair.
PrivateKey(k) == [type |-> "private", id |-> k]
PublicKey(k) == [type |-> "public", id |-> k]
GenerateKey(k) == [privateKey |-> PrivateKey(k), publicKey |-> PublicKey(k)]

\* crypto.subtle.exportKey("pkcs8" | "spki" | "raw", key).
ExportPkcs8(key) == [fmt |-> "pkcs8", len |-> 138, id |-> key.id]
ExportSpki(key) == [fmt |-> "spki", len |-> 91, id |-> key.id]
ExportRaw(key) == [fmt |-> "raw", len |-> EPHEMERAL_KEY_LENGTH, id |-> key.id]

\* A result of a platform call or of a method: a value, or the error thrown.
Ok(v) == [ok |-> TRUE, value |-> v, error |-> ""]
Err(e) == [ok |-> FALSE, value |-> Null, error |-> e]

\* crypto.subtle.importKey("pkcs8", data, ECDH P-256, ...).
ImportPkcs8(data) ==
  IF data.fmt = "pkcs8" THEN Ok(PrivateKey(data.id)) ELSE Err("DataError")

\* crypto.subtle.importKey("spki", data, ECDH P-256, ...).
ImportSpki(data) ==
  IF data.fmt = "spki" THEN Ok(PublicKey(data.id)) ELSE Err("DataError")

\* crypto.subtle.importKey("raw", data, ECDH P-256, ...): an uncompressed point.
ImportRaw(data) ==
  IF data.fmt = "raw" THEN Ok(PublicKey(data.id)) ELSE Err("DataError")

\* _deriveKeyFromPassword: PBKDF2(password, salt, 100000, SHA-256) -> AES-GCM key.
\* Deterministic in (password, salt); different inputs give different keys.
DeriveKeyFromPassword(password, s) ==
  [type |-> "secret", from |-> "PBKDF2", password |-> password, salt |-> s]

DeriveKeyEcdhOneSided(public, private) ==
  [type |-> "secret", from |-> "ECDH", ids |-> <<public.id, private.id>>]

\* crypto.subtle.deriveKey({name: "ECDH", public}, private, AES-GCM 256, ...).
\* The shared secret of (a, B) and of (b, A) is the same, and no other pair's.
DeriveKeyEcdh(public, private) ==
  [type |-> "secret", from |-> "ECDH", ids |-> {public.id, private.id}]

\* crypto.subtle.encrypt({name: "AES-GCM", iv}, key, data): ciphertext and tag.
AesGcmEncrypt(i, key, data) ==
  [fmt |-> "gcm", len |-> data.len + 16, key |-> key, iv |-> i, pt |-> data,
   intact |-> TRUE]

\* A ciphertext with some byte changed.
Tamper(ct) == [ct EXCEPT !.intact = FALSE]

AesGcmDecryptNoAuth(i, key, data) ==
  IF data.fmt = "gcm" THEN Ok(data.pt) ELSE Err("OperationError")

\* crypto.subtle.decrypt({name: "AES-GCM", iv}, key, data): the plaintext when the
\* tag verifies, which it does under the key and iv of the encryption only.
AesGcmDecrypt(i, key, data) ==
  IF data.fmt = "gcm" /\ data.intact /\ data.key = key /\ data.iv = i
  THEN Ok(data.pt)
  ELSE Err("OperationError")

\* -------------------------------------------------------------- strings
\* A string is a sequence of tokens: a base64 run, a PEM armor line, a newline,
\* the blob prefix, or characters outside the base64 alphabet.
Base64Token(buffer) == [t |-> "b64", of |-> buffer]
ArmorToken(edge, type) == [t |-> "armor", edge |-> edge, type |-> type]
NewlineToken == [t |-> "nl"]
PrefixToken == [t |-> "uv:"]
JunkToken == [t |-> "junk"]

\* Base64Utils.arrayBufferToBase64: btoa of the bytes; new Uint8Array(null) is
\* empty, and so is its base64.
ArrayBufferToBase64(buffer) ==
  IF buffer = Null \/ buffer = EmptyBytes THEN <<>> ELSE <<Base64Token(buffer)>>

\* Base64Utils.base64ToUint8Array: atob skips whitespace and throws on a
\* character outside the alphabet (armor dashes, the prefix's colon).
IsNotNewline(token) == token.t # "nl"

Base64ToUint8Array(base64) ==
  LET body == SelectSeq(base64, IsNotNewline)
  IN IF body = <<>> THEN Ok(EmptyBytes)
     ELSE IF Len(body) = 1 /\ body[1].t = "b64" THEN Ok(body[1].of)
     ELSE Err("InvalidCharacterError")

\* Base64Utils.formatPEM: the body in lines, between the armor lines.
FormatPEM(base64, type) ==
  <<ArmorToken("BEGIN", type), NewlineToken>> \o base64
    \o <<NewlineToken, ArmorToken("END", type)>>

IsPemBody(token) == token.t \notin {"armor", "nl"}

StripPEMNewlinesOnly(pem) == SelectSeq(pem, IsNotNewline)

\* Base64Utils.stripPEM: pem.replace(/-----.*?-----|\n/g, "").
StripPEM(pem) == SelectSeq(pem, IsPemBody)

\* ----------------------------------------------------------- call frames
\* A call frame: the entry point called (op), where it is suspended (pc), the
\* entry point's arguments (arg), the running method's locals (loc), the
\* continuations of the callers awaiting it (ret), its outcome once settled
\* (res), where it was when it settled (at: "call" is before the first await),
\* the vault as it was when the call was made (pre), and whether a lock() ran
\* while the call was suspended (overtaken).
Snapshot ==
  [keyPair |-> keyPair, salt |-> salt, iv |-> iv,
   wrappedPrivateKey |-> wrappedPrivateKey]

Idle ==
  [op |-> "none", pc |-> "idle", arg |-> Null, loc |-> Null, ret |-> <<>>,
   res |-> Null, at |-> "", pre |-> Null, overtaken |-> FALSE]

Frame(op, arg, pc, loc, ret) ==
  [op |-> op, pc |-> pc, arg |-> arg, loc |-> loc, ret |-> ret, res |-> Null,
   at |-> pc, pre |-> Snapshot, overtaken |-> FALSE]

\* No call of caller t is in flight.
Callable(t) == task[t].pc \in {"idle", "done"}

SettleSwallowing(f, r) ==
  IF f.ret # <<>>
  THEN [f EXCEPT !.pc = Head(f.ret), !.ret = Tail(f.ret), !.loc = [value |-> r.value]]
  ELSE [f EXCEPT !.pc = "done", !.ret = <<>>, !.loc = Null, !.res = r,
                 !.at = f.pc]

\* The running method settles with r: a value goes to the awaiting caller's
\* continuation, or ends the call; an error is caught by no caller and ends it.
Settle(f, r) ==
  IF r.ok /\ f.ret # <<>>
  THEN [f EXCEPT !.pc = Head(f.ret), !.ret = Tail(f.ret), !.loc = [value |-> r.value]]
  ELSE [f EXCEPT !.pc = "done", !.ret = <<>>, !.loc = Null, !.res = r,
                 !.at = f.pc]

Undefined == Ok(Null)

Put(t, f) == task' = [task EXCEPT ![t] = f]

\* The history of held keys, with those of key pair kp.
HeldWith(kp) == held \cup {kp.privateKey.id, kp.publicKey.id}

\* ------------------------------------------------------ generateKeyPair
GenerateKeyPairCall(t) ==
  /\ Callable(t)
  /\ nextKey < MaxKeys
  /\ Put(t, Frame("generateKeyPair", Null, "g_generateKey", Null, <<>>))
  /\ UNCHANGED <<vault, nextKey, nextNonce, server, held, blobs>>

\* generateKey has resolved: this.keyPair = the new pair.
GenerateKeyPairAssignKeepsOld(t) ==
  /\ task[t].pc = "g_generateKey"
  /\ nextKey' = nextKey + 1
  /\ keyPair' = IF keyPair = Null THEN GenerateKey(nextKey + 1) ELSE keyPair
  /\ held' = HeldWith(keyPair')
  /\ Put(t, Settle(task[t], Undefined))
  /\ UNCHANGED <<salt, iv, wrappedPrivateKey, nextNonce, server, blobs>>

GenerateKeyPairAssign(t) ==
  /\ task[t].pc = "g_generateKey"
  /\ nextKey' = nextKey + 1
  /\ keyPair' = GenerateKey(nextKey + 1)
  /\ held' = HeldWith(keyPair')
  /\ Put(t, Settle(task[t], Undefined))
  /\ UNCHANGED <<salt, iv, wrappedPrivateKey, nextNonce, server, blobs>>

\* ------------------------------------------- wrapPrivateKeyWithPassword
\* The method up to its first await: salt and iv are drawn and stored, and
\* _deriveKeyFromPassword is entered with the password and this.salt.
WrapBegin(t, f, password) ==
  /\ nextNonce' = nextNonce + 1
  /\ salt' = RandomValues(SALT_LENGTH, nextNonce + 1)
  /\ iv' = RandomValues(IV_LENGTH, nextNonce + 1)
  /\ Put(t, [f EXCEPT !.pc = "w_deriveKey",
                      !.loc = [password |-> password, salt |-> salt']])
  /\ UNCHANGED <<keyPair, wrappedPrivateKey, nextKey, server, held, blobs>>

WrapPrivateKeyWithPasswordCall(t, password) ==
  /\ Callable(t)
  /\ nextNonce < MaxNonce
  /\ WrapBegin(t, Frame("wrapPrivateKeyWithPassword", [password |-> password],
                        "call", Null, <<>>), password)

WrapFaultLocks(t) ==
  /\ task[t].pc \in {"w_deriveKey", "w_exportKey", "w_encrypt"}
  /\ Put(t, Settle(task[t], Err("OperationError")))
  /\ keyPair' = Null
  /\ UNCHANGED <<salt, iv, wrappedPrivateKey, nextKey, nextNonce, server, held, blobs>>

\* A platform primitive of the wrap rejects (the rewrap failing for a platform
\* reason, as in an entropy or an internal failure).
WrapFault(t) ==
  /\ task[t].pc \in {"w_deriveKey", "w_exportKey", "w_encrypt"}
  /\ Put(t, Settle(task[t], Err("OperationError")))
  /\ UNCHANGED <<vault, nextKey, nextNonce, server, held, blobs>>

\* The key-encryption key is derived; this.keyPair.privateKey is read and its
\* export issued. On a null keyPair the read throws.
WrapExportKey(t) ==
  /\ task[t].pc = "w_deriveKey"
  /\ LET f == task[t]
         kek == DeriveKeyFromPassword(f.loc.password, f.loc.salt)
     IN IF keyPair = Null
        THEN Put(t, Settle(f, Err("TypeError")))
        ELSE Put(t, [f EXCEPT !.pc = "w_exportKey",
                              !.loc = [kek |-> kek,
                                       privateKey |-> keyPair.privateKey]])
  /\ UNCHANGED <<vault, nextKey, nextNonce, server, held, blobs>>

\* The PKCS8 bytes are there; this.iv is read and the encryption issued. A null
\* iv is no BufferSource: encrypt rejects.
WrapEncrypt(t) ==
  /\ task[t].pc = "w_exportKey"
  /\ LET f == task[t]
         privateKeyRaw == ExportPkcs8(f.loc.privateKey)
     IN IF iv = Null
        THEN Put(t, Settle(f, Err("TypeError")))
        ELSE Put(t, [f EXCEPT !.pc = "w_encrypt",
                              !.loc = [ct |-> AesGcmEncrypt(iv, f.loc.kek,
                                                            privateKeyRaw)]])
  /\ UNCHANGED <<vault, nextKey, nextNonce, server, held, blobs>>

\* The encryption has resolved: this.wrappedPrivateKey = the ciphertext.
WrapAssign(t) ==
  /\ task[t].pc = "w_encrypt"
  /\ wrappedPrivateKey' = task[t].loc.ct
  /\ Put(t, Settle(task[t], Undefined))
  /\ UNCHANGED <<keyPair, salt, iv, nextKey, nextNonce, server, held, blobs>>

\* ------------------------------------------------------ unlockPrivateKey
UnlockFailed == "Failed to unlock vault: invalid password or corrupted data"

\* unlockPrivateKey(wrappedPrivateKey, salt, iv, password, publicKeyPem) up to
\* its first await, in _deriveKeyFromPassword.
UnlockArgs(w, s, i, password, pem) ==
  [wrappedPrivateKey |-> w, salt |-> s, iv |-> i, password |-> password,
   publicKeyPem |-> pem]

\* The key-encryption key is derived and the decryption issued.
UnlockDecrypt(t) ==
  /\ task[t].pc = "u_deriveKey"
  /\ LET f == task[t]
         a == f.loc
         kek == DeriveKeyFromPassword(a.password, a.salt)
     IN Put(t, [f EXCEPT !.pc = "u_decrypt",
                         !.loc = [raw |-> AesGcmDecrypt(a.iv, kek, a.wrappedPrivateKey),
                                  publicKeyPem |-> a.publicKeyPem]])
  /\ UNCHANGED <<vault, nextKey, nextNonce, server, held, blobs>>

\* The decryption has settled: its rejection is rethrown as the unlock error;
\* its plaintext goes to importKey("pkcs8").
UnlockImportPrivateKey(t) ==
  /\ task[t].pc = "u_decrypt"
  /\ LET f == task[t]
     IN IF ~f.loc.raw.ok
        THEN Put(t, Settle(f, Err(UnlockFailed)))
        ELSE Put(t, [f EXCEPT !.pc = "u_importPrivateKey",
                              !.loc = [privateKey |-> ImportPkcs8(f.loc.raw.value),
                                       publicKeyPem |-> f.loc.publicKeyPem]])
  /\ UNCHANGED <<vault, nextKey, nextNonce, server, held, blobs>>

\* The private key import has settled; _importPublicKeyFromPEM strips and
\* decodes the PEM and issues importKey("spki").
UnlockImportPublicKey(t) ==
  /\ task[t].pc = "u_importPrivateKey"
  /\ LET f == task[t]
         spkiBytes == Base64ToUint8Array(StripPEM(f.loc.publicKeyPem))
     IN IF ~f.loc.privateKey.ok
        THEN Put(t, Settle(f, f.loc.privateKey))
        ELSE IF ~spkiBytes.ok
        THEN Put(t, Settle(f, spkiBytes))
        ELSE Put(t, [f EXCEPT !.pc = "u_importPublicKey",
                              !.loc = [privateKey |-> f.loc.privateKey.value,
                                       publicKey |-> ImportSpki(spkiBytes.value)]])
  /\ UNCHANGED <<vault, nextKey, nextNonce, server, held, blobs>>

\* The public key import has settled: this.keyPair = { privateKey, publicKey }.
UnlockAssignEarly(t) ==
  /\ task[t].pc = "u_importPublicKey"
  /\ LET f == task[t]
     IN /\ keyPair' = [privateKey |-> f.loc.privateKey,
                       publicKey |-> f.loc.publicKey.value]
        /\ held' = held \cup {f.loc.privateKey.id}
        /\ Put(t, Settle(f, IF f.loc.publicKey.ok THEN Undefined
                            ELSE f.loc.publicKey))
  /\ UNCHANGED <<salt, iv, wrappedPrivateKey, nextKey, nextNonce, server, blobs>>

UnlockAssignUnlessOvertaken(t) ==
  /\ task[t].pc = "u_importPublicKey"
  /\ LET f == task[t]
     IN IF ~f.loc.publicKey.ok \/ f.overtaken
        THEN Put(t, Settle(f, Err("AbortError"))) /\ UNCHANGED <<keyPair, held>>
        ELSE /\ keyPair' = [privateKey |-> f.loc.privateKey,
                            publicKey |-> f.loc.publicKey.value]
             /\ held' = HeldWith(keyPair')
             /\ Put(t, Settle(f, Undefined))
  /\ UNCHANGED <<salt, iv, wrappedPrivateKey, nextKey, nextNonce, server, blobs>>

UnlockAssign(t) ==
  /\ task[t].pc = "u_importPublicKey"
  /\ LET f == task[t]
     IN IF ~f.loc.publicKey.ok
        THEN Put(t, Settle(f, f.loc.publicKey)) /\ UNCHANGED <<keyPair, held>>
        ELSE /\ keyPair' = [privateKey |-> f.loc.privateKey,
                            publicKey |-> f.loc.publicKey.value]
             /\ held' = HeldWith(keyPair')
             /\ Put(t, Settle(f, Undefined))
  /\ UNCHANGED <<salt, iv, wrappedPrivateKey, nextKey, nextNonce, server, blobs>>

UnlockBegin(t, f, w, s, i, password, pem) ==
  /\ Put(t, [f EXCEPT !.pc = "u_deriveKey",
                      !.loc = UnlockArgs(w, s, i, password, pem)])
  /\ UNCHANGED <<vault, nextKey, nextNonce, server, held, blobs>>

\* VaultUnlockPrivateKey(password, keyData) and VaultChangePassword(old, new,
\* keyData) decode the payload's base64 fields before they call the vault; a
\* field atob rejects ends the call there.
KeyDataDecoded(keyData) ==
  LET w == Base64ToUint8Array(keyData.wrapped_private_key)
      s == Base64ToUint8Array(keyData.salt)
      i == Base64ToUint8Array(keyData.iv)
  IN IF ~w.ok THEN w ELSE IF ~s.ok THEN s ELSE IF ~i.ok THEN i
     ELSE Ok([wrappedPrivateKey |-> w.value, salt |-> s.value, iv |-> i.value])

UnlockFromKeyData(t, f, password, keyData) ==
  LET d == KeyDataDecoded(keyData)
  IN IF ~d.ok
     THEN /\ Put(t, Settle(f, d))
          /\ UNCHANGED <<vault, nextKey, nextNonce, server, held, blobs>>
     ELSE UnlockBegin(t, f, d.value.wrappedPrivateKey, d.value.salt, d.value.iv,
                      password, keyData.public_key_pem)

VaultUnlockPrivateKeyCall(t, password, keyData) ==
  /\ Callable(t)
  /\ UnlockFromKeyData(t, Frame("VaultUnlockPrivateKey",
                                [password |-> password, keyData |-> keyData],
                                "call", Null, <<>>), password, keyData)

\* -------------------------------------------------------- changePassword
\* changePassword awaits unlockPrivateKey and then wrapPrivateKeyWithPassword.
VaultChangePasswordCall(t, old_password, new_password, keyData) ==
  /\ Callable(t)
  /\ nextNonce < MaxNonce
  /\ UnlockFromKeyData(t, Frame("VaultChangePassword",
                                [password |-> old_password,
                                 newPassword |-> new_password,
                                 keyData |-> keyData],
                                "call", Null, <<"cp_wrap">>),
                       old_password, keyData)

ChangePasswordWrapOldPassword(t) ==
  /\ task[t].pc = "cp_wrap"
  /\ nextNonce < MaxNonce
  /\ WrapBegin(t, task[t], task[t].arg.password)

\* changePassword resumes after the unlock and enters the wrap.
ChangePasswordWrap(t) ==
  /\ task[t].pc = "cp_wrap"
  /\ nextNonce < MaxNonce
  /\ WrapBegin(t, task[t], task[t].arg.newPassword)

\* ------------------------------------------------- isUnlocked, lock
\* !!this.keyPair?.privateKey
IsUnlocked == keyPair # Null /\ keyPair.privateKey # Null

IsUnlockedCall(t) ==
  /\ Callable(t)
  /\ Put(t, Settle(Frame("isUnlocked", Null, "call", Null, <<>>),
                   Ok([bool |-> IsUnlocked])))
  /\ UNCHANGED <<vault, nextKey, nextNonce, server, held, blobs>>

\* The frames after caller t's lock(): its own, settled at once (lock is
\* synchronous), and the other callers' suspended calls, which it leaves where
\* they are.
LockFrames(t) ==
  [u \in Tasks |->
     IF u = t THEN Settle(Frame("lock", Null, "call", Null, <<>>), Undefined)
     ELSE IF Callable(u) THEN task[u]
     ELSE [task[u] EXCEPT !.overtaken = TRUE]]

LockKeyPairOnly(t) ==
  /\ Callable(t)
  /\ keyPair' = Null
  /\ task' = LockFrames(t)
  /\ UNCHANGED <<salt, iv, wrappedPrivateKey, nextKey, nextNonce, server, held, blobs>>

Lock(t) ==
  /\ Callable(t)
  /\ keyPair' = Null
  /\ salt' = Null
  /\ iv' = Null
  /\ wrappedPrivateKey' = Null
  /\ task' = LockFrames(t)
  /\ UNCHANGED <<nextKey, nextNonce, server, held, blobs>>

\* _ensureUnlocked(message): throws `${message}: vault is locked` without a
\* private key.
EnsureUnlocked(message) ==
  IF ~(keyPair # Null /\ keyPair.privateKey # Null)
  THEN Err(CASE message = "Cannot export private key" ->
                  "Cannot export private key: vault is locked"
             [] message = "Cannot encrypt data" ->
                  "Cannot encrypt data: vault is locked"
             [] message = "Cannot decrypt data" ->
                  "Cannot decrypt data: vault is locked")
  ELSE Ok(Null)

\* ------------------------------------------------------------- exports
\* exportPublicKeyPEM up to its await: this.keyPair.publicKey is read (a null
\* keyPair throws) and its export issued.
ExportPublicKeyBegin(t, f) ==
  /\ IF keyPair = Null
     THEN Put(t, Settle(f, Err("TypeError")))
     ELSE Put(t, [f EXCEPT !.pc = "pub_exportKey",
                           !.loc = [publicKey |-> keyPair.publicKey]])
  /\ UNCHANGED <<vault, nextKey, nextNonce, server, held, blobs>>

ExportPublicKeyPEMCall(t) ==
  /\ Callable(t)
  /\ ExportPublicKeyBegin(t, Frame("exportPublicKeyPEM", Null, "call", Null, <<>>))

ExportPublicKeyFormat(t) ==
  /\ task[t].pc = "pub_exportKey"
  /\ Put(t, Settle(task[t],
         Ok(FormatPEM(ArrayBufferToBase64(ExportSpki(task[t].loc.publicKey)),
                      "PUBLIC KEY"))))
  /\ UNCHANGED <<vault, nextKey, nextNonce, server, held, blobs>>

ExportPrivateKeyPEMCall(t) ==
  /\ Callable(t)
  /\ LET f == Frame("exportPrivateKeyPEM", Null, "call", Null, <<>>)
         e == EnsureUnlocked("Cannot export private key")
     IN IF ~e.ok
        THEN Put(t, Settle(f, e))
        ELSE Put(t, [f EXCEPT !.pc = "priv_exportKey",
                              !.loc = [privateKey |-> keyPair.privateKey]])
  /\ UNCHANGED <<vault, nextKey, nextNonce, server, held, blobs>>

ExportPrivateKeyFormat(t) ==
  /\ task[t].pc = "priv_exportKey"
  /\ Put(t, Settle(task[t],
         Ok(FormatPEM(ArrayBufferToBase64(ExportPkcs8(task[t].loc.privateKey)),
                      "PRIVATE KEY"))))
  /\ UNCHANGED <<vault, nextKey, nextNonce, server, held, blobs>>

\* exportPayload awaits exportPublicKeyPEM first, then reads the other fields.
ExportPayloadCall(t) ==
  /\ Callable(t)
  /\ ExportPublicKeyBegin(t, Frame("exportPayload", Null, "call", Null,
                                   <<"xp_fields">>))

ExportPayloadFieldsNoSalt(t) ==
  /\ task[t].pc = "xp_fields"
  /\ Put(t, Settle(task[t],
         Ok([public_key_pem |-> task[t].loc.value,
             wrapped_private_key |-> ArrayBufferToBase64(wrappedPrivateKey),
             salt |-> <<>>,
             iv |-> ArrayBufferToBase64(iv)])))
  /\ UNCHANGED <<vault, nextKey, nextNonce, server, held, blobs>>

ExportPayloadFields(t) ==
  /\ task[t].pc = "xp_fields"
  /\ Put(t, Settle(task[t],
         Ok([public_key_pem |-> task[t].loc.value,
             wrapped_private_key |-> ArrayBufferToBase64(wrappedPrivateKey),
             salt |-> ArrayBufferToBase64(salt),
             iv |-> ArrayBufferToBase64(iv)])))
  /\ UNCHANGED <<vault, nextKey, nextNonce, server, held, blobs>>

\* ------------------------------------------ VaultSetupUserCryptoAndSend
\* generateKeyPair, then wrapPrivateKeyWithPassword(password), then exportPayload.
VaultSetupUserCryptoAndSendCall(t, password) ==
  /\ Callable(t)
  /\ nextKey < MaxKeys
  /\ nextNonce < MaxNonce
  /\ Put(t, Frame("VaultSetupUserCryptoAndSend", [password |-> password],
                  "g_generateKey", Null, <<"vs_wrap", "vs_export", "xp_fields">>))
  /\ UNCHANGED <<vault, nextKey, nextNonce, server, held, blobs>>

VaultSetupWrap(t) ==
  /\ task[t].pc = "vs_wrap"
  /\ nextNonce < MaxNonce
  /\ WrapBegin(t, task[t], task[t].arg.password)

VaultSetupExport(t) ==
  /\ task[t].pc = "vs_export"
  /\ ExportPublicKeyBegin(t, task[t])

\* ------------------------------------------------------------- storage
\* The storage collaborator keeps the payload a caller hands it, unmodified.
Upload(t) ==
  /\ task[t].pc = "done"
  /\ task[t].op \in {"exportPayload", "VaultSetupUserCryptoAndSend"}
  /\ task[t].res.ok
  /\ server' = task[t].res.value
  /\ UNCHANGED <<vault, task, nextKey, nextNonce, held, blobs>>

\* ------------------------------------------------------------ encryptData
\* TextEncoder.encode and TextDecoder.decode (UTF-8).
Encode(message) ==
  [fmt |-> "utf8", len |-> IF message = "" THEN 0 ELSE 1, text |-> message]
Decode(buffer) == IF buffer.fmt = "utf8" THEN buffer.text ELSE "\\uFFFD"

\* [ephemeral | iv | ciphertext] in one buffer.
Combine(ephemeralRaw, i, ciphertext) ==
  [fmt |-> "frame", len |-> ephemeralRaw.len + i.len + ciphertext.len,
   parts |-> <<ephemeralRaw, i, ciphertext>>]

\* combined.slice(0, 65), .slice(65, 65 + 12), .slice(65 + 12).
Slices(combined) ==
  IF /\ combined.fmt = "frame"
     /\ combined.parts[1].len = EPHEMERAL_KEY_LENGTH
     /\ combined.parts[2].len = IV_LENGTH
  THEN combined.parts
  ELSE IF combined.len <= EPHEMERAL_KEY_LENGTH
  THEN <<combined, EmptyBytes, EmptyBytes>>
  ELSE <<JunkBytes, JunkBytes, JunkBytes>>

DecryptFailed == "Failed to decrypt data: invalid data or wrong vault"

EncryptDataCallUnguarded(t, message) ==
  /\ Callable(t)
  /\ nextKey < MaxKeys
  /\ nextNonce < MaxNonce
  /\ Put(t, [Frame("encryptData", [message |-> message], "call", Null, <<>>)
               EXCEPT !.pc = "e_generateKey"])
  /\ UNCHANGED <<vault, nextKey, nextNonce, server, held, blobs>>

EncryptDataCall(t, message) ==
  /\ Callable(t)
  /\ nextKey < MaxKeys
  /\ nextNonce < MaxNonce
  /\ LET f == Frame("encryptData", [message |-> message], "call", Null, <<>>)
         e == EnsureUnlocked("Cannot encrypt data")
     IN IF ~e.ok
        THEN Put(t, Settle(f, e))
        ELSE Put(t, [f EXCEPT !.pc = "e_generateKey"])
  /\ UNCHANGED <<vault, nextKey, nextNonce, server, held, blobs>>

EncryptDeriveKeyCachedEphemeral(t) ==
  /\ task[t].pc = "e_generateKey"
  /\ nextKey' = nextKey + 1
  /\ LET f == task[t]
     IN IF keyPair = Null
        THEN Put(t, Settle(f, Err("TypeError")))
        ELSE Put(t, [f EXCEPT !.pc = "e_deriveKey",
                              !.loc = [ephemeral |-> GenerateKey(MaxKeys),
                                       publicKey |-> keyPair.publicKey]])
  /\ UNCHANGED <<vault, nextNonce, server, held, blobs>>

\* The ephemeral pair is there; this.keyPair.publicKey is read and the shared
\* key's derivation issued.
EncryptDeriveKey(t) ==
  /\ task[t].pc = "e_generateKey"
  /\ nextKey' = nextKey + 1
  /\ LET f == task[t]
     IN IF keyPair = Null
        THEN Put(t, Settle(f, Err("TypeError")))
        ELSE Put(t, [f EXCEPT !.pc = "e_deriveKey",
                              !.loc = [ephemeral |-> GenerateKey(nextKey + 1),
                                       publicKey |-> keyPair.publicKey]])
  /\ UNCHANGED <<vault, nextNonce, server, held, blobs>>

EncryptEncryptKeepsIv(t) ==
  /\ task[t].pc = "e_deriveKey"
  /\ nextNonce < MaxNonce
  /\ nextNonce' = nextNonce + 1
  /\ iv' = RandomValues(IV_LENGTH, nextNonce + 1)
  /\ LET f == task[t]
         sharedKey == DeriveKeyEcdh(f.loc.publicKey, f.loc.ephemeral.privateKey)
     IN Put(t, [f EXCEPT !.pc = "e_encrypt",
                         !.loc = [ephemeral |-> f.loc.ephemeral, iv |-> iv',
                                  ciphertext |->
                                    AesGcmEncrypt(iv', sharedKey,
                                                  Encode(f.arg.message))]])
  /\ UNCHANGED <<keyPair, salt, wrappedPrivateKey, nextKey, server, held, blobs>>

\* The shared key is there; the iv is drawn and the encryption issued.
EncryptEncrypt(t) ==
  /\ task[t].pc = "e_deriveKey"
  /\ nextNonce < MaxNonce
  /\ nextNonce' = nextNonce + 1
  /\ LET f == task[t]
         sharedKey == DeriveKeyEcdh(f.loc.publicKey, f.loc.ephemeral.privateKey)
         i == RandomValues(IV_LENGTH, nextNonce + 1)
     IN Put(t, [f EXCEPT !.pc = "e_encrypt",
                         !.loc = [ephemeral |-> f.loc.ephemeral, iv |-> i,
                                  ciphertext |->
                                    AesGcmEncrypt(i, sharedKey, Encode(f.arg.message))]])
  /\ UNCHANGED <<vault, nextKey, server, held, blobs>>

\* The ciphertext is there; the ephemeral public key's raw export is issued.
EncryptExportKey(t) ==
  /\ task[t].pc = "e_encrypt"
  /\ Put(t, [task[t] EXCEPT !.pc = "e_exportKey"])
  /\ UNCHANGED <<vault, nextKey, nextNonce, server, held, blobs>>

\* "uv:" + base64(ephemeral | iv | ciphertext).
EncryptReturn(t) ==
  /\ task[t].pc = "e_exportKey"
  /\ LET f == task[t]
         combined == Combine(ExportRaw(f.loc.ephemeral.publicKey), f.loc.iv,
                             f.loc.ciphertext)
         blob == <<PrefixToken>> \o ArrayBufferToBase64(combined)
     IN /\ Put(t, Settle(f, Ok(blob)))
        /\ blobs' = blobs \cup {blob}
  /\ UNCHANGED <<vault, nextKey, nextNonce, server, held>>

\* ------------------------------------------------------------ decryptData
\* blobBase64.replace(/^uv:/, "")
StripPrefix(blob) ==
  IF blob # <<>> /\ blob[1] = PrefixToken THEN Tail(blob) ELSE blob

DecryptDataCall(t, blob) ==
  /\ Callable(t)
  /\ LET f == Frame("decryptData", [blob |-> blob], "call", Null, <<>>)
         e == EnsureUnlocked("Cannot decrypt data")
         combined == Base64ToUint8Array(StripPrefix(blob))
     IN IF ~e.ok THEN Put(t, Settle(f, e))
        ELSE IF ~combined.ok THEN Put(t, Settle(f, combined))
        ELSE Put(t, [f EXCEPT !.pc = "d_importKey",
                              !.loc = [ephemeralRaw |-> Slices(combined.value)[1],
                                       iv |-> Slices(combined.value)[2],
                                       ciphertext |-> Slices(combined.value)[3]]])
  /\ UNCHANGED <<vault, nextKey, nextNonce, server, held, blobs>>

\* The ephemeral key's import has settled; this.keyPair.privateKey is read and
\* the shared key's derivation issued.
DecryptDeriveKey(t) ==
  /\ task[t].pc = "d_importKey"
  /\ LET f == task[t]
         ephemeralPubKey == ImportRaw(f.loc.ephemeralRaw)
     IN IF ~ephemeralPubKey.ok THEN Put(t, Settle(f, ephemeralPubKey))
        ELSE IF keyPair = Null THEN Put(t, Settle(f, Err("TypeError")))
        ELSE Put(t, [f EXCEPT !.pc = "d_deriveKey",
                              !.loc = [sharedKey |->
                                         DeriveKeyEcdh(ephemeralPubKey.value,
                                                       keyPair.privateKey),
                                       iv |-> f.loc.iv,
                                       ciphertext |-> f.loc.ciphertext]])
  /\ UNCHANGED <<vault, nextKey, nextNonce, server, held, blobs>>

\* The shared key is there; the decryption is issued.
DecryptDecrypt(t) ==
  /\ task[t].pc = "d_deriveKey"
  /\ LET f == task[t]
     IN Put(t, [f EXCEPT !.pc = "d_decrypt",
                         !.loc = [plaintext |->
                                    AesGcmDecrypt(f.loc.iv, f.loc.sharedKey,
                                                  f.loc.ciphertext)]])
  /\ UNCHANGED <<vault, nextKey, nextNonce, server, held, blobs>>

\* The decryption has settled: its rejection is rethrown as the decrypt error.
DecryptReturn(t) ==
  /\ task[t].pc = "d_decrypt"
  /\ LET f == task[t]
     IN IF ~f.loc.plaintext.ok
        THEN Put(t, Settle(f, Err(DecryptFailed)))
        ELSE Put(t, Settle(f, Ok(Decode(f.loc.plaintext.value))))
  /\ UNCHANGED <<vault, nextKey, nextNonce, server, held, blobs>>

\* --------------------------------------------------------------- inputs
\* The blob encryptData makes of message for the public key of pair k, with
\* ephemeral pair e and the n-th random draw as iv.
BlobOf(e, k, n, message) ==
  <<PrefixToken>> \o ArrayBufferToBase64(
     Combine(ExportRaw(PublicKey(e)), RandomValues(IV_LENGTH, n),
             AesGcmEncrypt(RandomValues(IV_LENGTH, n),
                           DeriveKeyEcdh(PublicKey(k), PrivateKey(e)),
                           Encode(message))))

\* The blob with the regions of its frame replaced.
WithParts(blob, ephemeralRaw, i, ciphertext) ==
  <<PrefixToken,
    Base64Token([blob[2].of EXCEPT !.parts = <<ephemeralRaw, i, ciphertext>>])>>

\* 65 bytes that encode no point of the curve, the encoding of a point that is
\* no key of this run, and 12 bytes that no draw gave.
NoPoint == [fmt |-> "junk", len |-> EPHEMERAL_KEY_LENGTH]
OtherPoint == ExportRaw(PublicKey(0))
OtherIv == RandomValues(IV_LENGTH, 0)

\* What a caller may make of a blob encryptData returned: the blob, the blob
\* with a byte changed in its ephemeral key (to no point, or to another point),
\* in its iv or in its ciphertext, and the blob without its prefix.
Variants(blob) ==
  LET p == blob[2].of.parts
  IN {blob,
      WithParts(blob, NoPoint, p[2], p[3]),
      WithParts(blob, OtherPoint, p[2], p[3]),
      WithParts(blob, p[1], OtherIv, p[3]),
      WithParts(blob, p[1], p[2], Tamper(p[3])),
      Tail(blob)}

\* What decryptData is called with: a blob encryptData returned, as returned or
\* changed; a blob whose body is too short for a frame; a string that is no
\* base64.
DecryptInputs ==
  UNION {Variants(blob) : blob \in blobs}
    \cup {<<PrefixToken, Base64Token(JunkBytes)>>, <<JunkToken>>}

\* ---------------------------------------------------------- specification
Init ==
  /\ keyPair = Null
  /\ salt = Null
  /\ iv = Null
  /\ wrappedPrivateKey = Null
  /\ task = [t \in Tasks |-> Idle]
  /\ nextKey = 0
  /\ nextNonce = 0
  /\ server = Null
  /\ held = {}
  /\ blobs = {}

\* A caller makes a call.
Call(t) ==
  \/ GenerateKeyPairCall(t)
  \/ \E password \in Passwords : WrapPrivateKeyWithPasswordCall(t, password)
  \/ \E password \in Passwords :
       server # Null /\ VaultUnlockPrivateKeyCall(t, password, server)
  \/ \E old \in Passwords, new \in Passwords :
       server # Null /\ VaultChangePasswordCall(t, old, new, server)
  \/ Lock(t)
  \/ IsUnlockedCall(t)
  \/ ExportPublicKeyPEMCall(t)
  \/ ExportPrivateKeyPEMCall(t)
  \/ ExportPayloadCall(t)
  \/ \E password \in Passwords : VaultSetupUserCryptoAndSendCall(t, password)
  \/ \E message \in Messages : EncryptDataCall(t, message)
  \/ \E blob \in DecryptInputs : DecryptDataCall(t, blob)

\* A call in flight resumes after an await.
Resume(t) ==
  \/ GenerateKeyPairAssign(t)
  \/ WrapFault(t)
  \/ WrapExportKey(t)
  \/ WrapEncrypt(t)
  \/ WrapAssign(t)
  \/ UnlockDecrypt(t)
  \/ UnlockImportPrivateKey(t)
  \/ UnlockImportPublicKey(t)
  \/ UnlockAssign(t)
  \/ ChangePasswordWrap(t)
  \/ ExportPublicKeyFormat(t)
  \/ ExportPrivateKeyFormat(t)
  \/ ExportPayloadFields(t)
  \/ VaultSetupWrap(t)
  \/ VaultSetupExport(t)
  \/ EncryptDeriveKey(t)
  \/ EncryptEncrypt(t)
  \/ EncryptExportKey(t)
  \/ EncryptReturn(t)
  \/ DecryptDeriveKey(t)
  \/ DecryptDecrypt(t)
  \/ DecryptReturn(t)

\* Calls run one at a time: the one caller awaits each call before it makes the
\* next (Callable), so that no two calls are in flight.
Next ==
  \/ Call(Main)
  \/ Resume(Main)
  \/ Upload(Main)

Spec == Init /\ [][Next]_vars

\* An independent trigger (a timer, another event handler) calls lock(). It does
\* not await the main caller's calls: its lock() runs between the steps of a
\* call of the main caller.
NextConcurrent ==
  \/ Call(Main)
  \/ Resume(Main)
  \/ Upload(Main)
  \/ Lock(Trigger)

SpecConcurrent == Init /\ [][NextConcurrent]_vars

\* --------------------------------- unlockPrivateKey over all its arguments
\* The wrapped material a caller may hold: the ciphertext a wrap made of a
\* private key (or an AES-GCM ciphertext of other bytes) under some password,
\* salt and iv, as made or with a byte changed.
WrappedInputs ==
  LET made == {AesGcmEncrypt(RandomValues(IV_LENGTH, n),
                             DeriveKeyFromPassword(p, RandomValues(SALT_LENGTH, m)),
                             pt) :
                 n \in 1..MaxNonce, m \in 1..MaxNonce, p \in Passwords,
                 pt \in {ExportPkcs8(PrivateKey(k)) : k \in 1..MaxKeys}
                          \cup {JunkBytes}}
  IN made \cup {Tamper(ct) : ct \in made}

\* The publicKeyPem a caller may pass: the PEM of a public key, its base64
\* without the armor lines, the PEM of bytes that are no SPKI, and a string
\* that is no base64.
PemInputs ==
  {FormatPEM(ArrayBufferToBase64(ExportSpki(PublicKey(k))), "PUBLIC KEY") :
     k \in 1..MaxKeys}
    \cup {ArrayBufferToBase64(ExportSpki(PublicKey(1))),
          FormatPEM(ArrayBufferToBase64(JunkBytes), "PUBLIC KEY"),
          <<JunkToken>>}

\* The vault a call may find: new, holding a generated pair, holding a pair
\* wrapped under "pw1", and after a wrap that failed on the locked vault.
PriorVaults ==
  LET s1 == RandomValues(SALT_LENGTH, 1)
      i1 == RandomValues(IV_LENGTH, 1)
  IN {[keyPair |-> Null, salt |-> Null, iv |-> Null, wrappedPrivateKey |-> Null,
       nextKey |-> 0, nextNonce |-> 0],
      [keyPair |-> GenerateKey(1), salt |-> Null, iv |-> Null,
       wrappedPrivateKey |-> Null, nextKey |-> 1, nextNonce |-> 0],
      [keyPair |-> GenerateKey(1), salt |-> s1, iv |-> i1,
       wrappedPrivateKey |->
         AesGcmEncrypt(i1, DeriveKeyFromPassword("pw1", s1),
                       ExportPkcs8(PrivateKey(1))),
       nextKey |-> 1, nextNonce |-> 1],
      [keyPair |-> Null, salt |-> s1, iv |-> i1, wrappedPrivateKey |-> Null,
       nextKey |-> 0, nextNonce |-> 1]}

\* unlockPrivateKey(w, s, i, password, pem) has just been called on a vault.
InitUnlock ==
  \E v \in PriorVaults, w \in WrappedInputs, m \in 1..MaxNonce, n \in 1..MaxNonce,
     password \in Passwords, pem \in PemInputs :
    LET a == UnlockArgs(w, RandomValues(SALT_LENGTH, m), RandomValues(IV_LENGTH, n),
                        password, pem)
    IN /\ keyPair = v.keyPair
       /\ salt = v.salt
       /\ iv = v.iv
       /\ wrappedPrivateKey = v.wrappedPrivateKey
       /\ nextKey = v.nextKey
       /\ nextNonce = v.nextNonce
       /\ server = Null
       /\ held = IF v.keyPair = Null THEN {} ELSE {1}
       /\ blobs = {}
       /\ task = [t \in Tasks |->
                   IF t = Main
                   THEN [op |-> "unlockPrivateKey", pc |-> "u_deriveKey", arg |-> a,
                         loc |-> a, ret |-> <<>>, res |-> Null, at |-> "call",
                         pre |-> [keyPair |-> v.keyPair, salt |-> v.salt,
                                  iv |-> v.iv,
                                  wrappedPrivateKey |-> v.wrappedPrivateKey],
                         overtaken |-> FALSE]
                   ELSE Idle]

NextUnlock ==
  \/ UnlockDecrypt(Main)
  \/ UnlockImportPrivateKey(Main)
  \/ UnlockImportPublicKey(Main)
  \/ UnlockAssign(Main)

SpecUnlock == InitUnlock /\ [][NextUnlock]_vars

\* ------------------------- wrapPrivateKeyWithPassword from two callers
\* Two callers have an Unlocked vault before them (holding a generated pair,
\* wrapped or not yet) and have made no call.
InitWraps ==
  \E v \in {w \in PriorVaults : w.keyPair # Null} :
    /\ keyPair = v.keyPair
    /\ salt = v.salt
    /\ iv = v.iv
    /\ wrappedPrivateKey = v.wrappedPrivateKey
    /\ nextKey = v.nextKey
    /\ nextNonce = v.nextNonce
    /\ server = Null
    /\ held = {1}
    /\ blobs = {}
    /\ task = [t \in Tasks |-> Idle]

\* Neither caller awaits the other's call: the steps of their wraps interleave
\* in any order the platform's completions allow.
NextWraps ==
  \E t \in Tasks :
    \/ \E password \in Passwords : WrapPrivateKeyWithPasswordCall(t, password)
    \/ WrapExportKey(t)
    \/ WrapEncrypt(t)
    \/ WrapAssign(t)

SpecWraps == InitWraps /\ [][NextWraps]_vars

\* ================================================================ claims
\* The frame of the one caller.
M == task[Main]

\* Every wrapping field and the key pair are cleared.
Cleared ==
  keyPair = Null /\ salt = Null /\ iv = Null /\ wrappedPrivateKey = Null

\* The entry points that generate, unlock or wrap.
Mutators ==
  {"generateKeyPair", "wrapPrivateKeyWithPassword", "VaultUnlockPrivateKey",
   "unlockPrivateKey", "VaultChangePassword", "VaultSetupUserCryptoAndSend"}

\* C1: an unlockPrivateKey call that fails (at the decryption, at the private
\* key import or at the public key PEM import) leaves keyPair, salt, iv and
\* wrappedPrivateKey as they were before the call, whatever the vault held; nor
\* are they changed while the call is still in flight.
C1_FailedUnlockLeavesVault ==
  (M.op = "unlockPrivateKey" /\ ~(M.pc = "done" /\ M.res.ok)) => Snapshot = M.pre

\* An unlock of an Unlocked vault holding wrapped material has passed the
\* decryption and the private key import and failed at the public key PEM.
C1_Witness ==
  /\ M.op = "unlockPrivateKey" /\ M.pc = "done" /\ ~M.res.ok
  /\ M.at = "u_importPublicKey"
  /\ M.pre.keyPair # Null /\ M.pre.wrappedPrivateKey # Null
  /\ Snapshot = M.pre

\* C2: when lock() has returned the vault is Locked with keyPair, salt, iv and
\* wrappedPrivateKey all cleared, and a cleared vault stays cleared through
\* every step that is not of a generate, unlock, wrap or changePassword call.
C2_LockClears ==
  [][/\ (task'[Main].op = "lock" /\ task'[Main].pc = "done")
          => (Cleared' /\ ~IsUnlocked')
     /\ (Cleared /\ task'[Main].op \notin Mutators) => (Cleared' /\ ~IsUnlocked')]_vars

\* lock() has returned on a vault that was Unlocked and held wrapped material.
C2_Witness ==
  /\ M.op = "lock" /\ M.pc = "done"
  /\ M.pre.keyPair # Null /\ M.pre.salt # Null /\ M.pre.iv # Null
  /\ M.pre.wrappedPrivateKey # Null
  /\ Cleared

\* C3: called on a Locked vault, exportPrivateKeyPEM, encryptData and
\* decryptData each fail with their vault-is-locked error before the first
\* await, and leave the vault as it was.
C3_LockedOpsFail ==
  (/\ M.op \in {"exportPrivateKeyPEM", "encryptData", "decryptData"}
   /\ (M.pre.keyPair = Null \/ M.pre.keyPair.privateKey = Null))
  => /\ M.pc = "done" /\ ~M.res.ok /\ M.at = "call"
     /\ M.res.error =
          (CASE M.op = "exportPrivateKeyPEM" ->
                  "Cannot export private key: vault is locked"
             [] M.op = "encryptData" -> "Cannot encrypt data: vault is locked"
             [] M.op = "decryptData" -> "Cannot decrypt data: vault is locked")
     /\ Snapshot = M.pre

\* exportPrivateKeyPEM has failed on a vault that held a key before (so that it
\* was locked since).
C3_Witness ==
  /\ M.op = "exportPrivateKeyPEM" /\ M.pc = "done"
  /\ M.res.error = "Cannot export private key: vault is locked"
  /\ held # {}
  /\ M.pre.keyPair = Null

\* The wrapped material is what a wrap makes of a private key.
MadeByWrap(w) == w.fmt = "gcm" /\ w.pt.fmt = "pkcs8" /\ w.key.from = "PBKDF2"

\* The arguments differ from what the wrapped material was made with.
Mismatch(a) ==
  LET w == a.wrappedPrivateKey
  IN \/ a.password # w.key.password
     \/ a.salt # w.key.salt
     \/ a.iv # w.iv
     \/ ~w.intact

\* C4: unlockPrivateKey given wrapped material of a wrap with another password,
\* another salt or another iv than it was made with, or modified, never gets
\* past the decryption and fails with the unlock error.
C4_MismatchRejected ==
  (/\ M.op = "unlockPrivateKey"
   /\ MadeByWrap(M.arg.wrappedPrivateKey)
   /\ Mismatch(M.arg))
  => /\ M.pc \in {"u_deriveKey", "u_decrypt", "done"}
     /\ M.pc = "done" => (~M.res.ok /\ M.res.error = UnlockFailed)

\* An unlock with the right password and salt, an unmodified ciphertext and
\* only the iv different has failed with the unlock error.
C4_Witness ==
  /\ M.op = "unlockPrivateKey" /\ M.pc = "done"
  /\ MadeByWrap(M.arg.wrappedPrivateKey)
  /\ M.arg.wrappedPrivateKey.intact
  /\ M.arg.password = M.arg.wrappedPrivateKey.key.password
  /\ M.arg.salt = M.arg.wrappedPrivateKey.key.salt
  /\ M.arg.iv # M.arg.wrappedPrivateKey.iv
  /\ M.res.error = UnlockFailed

\* The payload of key pair k wrapped under password with the n-th random draw.
SetupPayload(k, n, password) ==
  LET s == RandomValues(SALT_LENGTH, n)
      i == RandomValues(IV_LENGTH, n)
  IN [public_key_pem |->
        FormatPEM(ArrayBufferToBase64(ExportSpki(PublicKey(k))), "PUBLIC KEY"),
      wrapped_private_key |->
        ArrayBufferToBase64(AesGcmEncrypt(i, DeriveKeyFromPassword(password, s),
                                          ExportPkcs8(PrivateKey(k)))),
      salt |-> ArrayBufferToBase64(s),
      iv |-> ArrayBufferToBase64(i)]

\* C5: generateKeyPair, wrapPrivateKeyWithPassword(P) and exportPayload give the
\* payload of the generated pair under P, and unlocking with that payload and
\* P succeeds and leaves the vault holding that pair's private and public key.
C5_WrapUnlockRoundTrip ==
  /\ (M.op = "VaultSetupUserCryptoAndSend" /\ M.pc = "done" /\ M.res.ok)
       => \E k \in 1..MaxKeys, n \in 1..MaxNonce :
            /\ M.res.value = SetupPayload(k, n, M.arg.password)
            /\ keyPair = GenerateKey(k)
  /\ (M.op = "VaultUnlockPrivateKey" /\ M.pc = "done")
       => \A k \in 1..MaxKeys, n \in 1..MaxNonce :
            M.arg.keyData = SetupPayload(k, n, M.arg.password)
              => (M.res.ok /\ IsUnlocked /\ keyPair = GenerateKey(k))

\* A Locked vault was unlocked with a setup payload and its password.
C5_Witness ==
  /\ M.op = "VaultUnlockPrivateKey" /\ M.pc = "done" /\ M.res.ok
  /\ M.pre.keyPair = Null
  /\ \E k \in 1..MaxKeys, n \in 1..MaxNonce :
       /\ M.arg.keyData = SetupPayload(k, n, M.arg.password)
       /\ keyPair = GenerateKey(k)

\* C6: an Unlocked vault holds a private and a public key of the same pair, and
\* a vault that is not Unlocked holds no private key.
C6_UnlockedHoldsMatchingPair ==
  /\ IsUnlocked => /\ keyPair.publicKey # Null
                   /\ keyPair.publicKey.id = keyPair.privateKey.id
  /\ ~IsUnlocked => keyPair = Null

\* The unlock of frame f is at the step at which it fails.
UnlockStepFails(f) ==
  \/ f.pc = "u_decrypt" /\ ~f.loc.raw.ok
  \/ f.pc = "u_importPrivateKey"
       /\ (\/ ~f.loc.privateKey.ok
           \/ ~Base64ToUint8Array(StripPEM(f.loc.publicKeyPem)).ok)
  \/ f.pc = "u_importPublicKey" /\ ~f.loc.publicKey.ok

\* C7: when the unlock of a changePassword fails, the changePassword ends there
\* with an error: no wrap is entered, keyPair, salt, iv and wrappedPrivateKey
\* are as before the call, and a vault that was Locked is still Locked.
C7_FailedUnlockNoRewrap ==
  [][(M.op = "VaultChangePassword" /\ UnlockStepFails(M))
       => /\ task'[Main].pc = "done"
          /\ ~task'[Main].res.ok
          /\ Snapshot' = M.pre
          /\ (M.pre.keyPair = Null => ~IsUnlocked')]_vars

\* A changePassword on a Locked vault that held wrapped material before has
\* failed with the unlock error.
C7_Witness ==
  /\ M.op = "VaultChangePassword" /\ M.pc = "done"
  /\ M.res.error = UnlockFailed
  /\ M.at = "u_decrypt"
  /\ M.arg.keyData.wrapped_private_key # <<>>
  /\ M.pre.keyPair = Null /\ ~IsUnlocked
  /\ Snapshot = M.pre

\* What unlockPrivateKey recovers from a payload under a password: the private
\* key in the wrapped material and the public key of the PEM.
Recovered(keyData, password) ==
  LET d == KeyDataDecoded(keyData).value
      raw == AesGcmDecrypt(d.iv, DeriveKeyFromPassword(password, d.salt),
                           d.wrappedPrivateKey)
      spki == Base64ToUint8Array(StripPEM(keyData.public_key_pem))
  IN [ok |-> raw.ok, raw |-> raw.value,
      keyPair |-> [privateKey |-> ImportPkcs8(raw.value).value,
                   publicKey |-> ImportSpki(spki.value).value]]

\* C8: after a changePassword that succeeded the vault is Unlocked and holds the
\* key pair of the input material, and the salt, iv and wrapped ciphertext it
\* holds decrypt under the new password to that private key.
C8_ChangePasswordKeepsPair ==
  (M.op = "VaultChangePassword" /\ M.pc = "done" /\ M.res.ok)
  => LET r == Recovered(M.arg.keyData, M.arg.password)
     IN /\ r.ok
        /\ IsUnlocked
        /\ keyPair = r.keyPair
        /\ salt # Null /\ iv # Null /\ wrappedPrivateKey # Null
        /\ AesGcmDecrypt(iv, DeriveKeyFromPassword(M.arg.newPassword, salt),
                         wrappedPrivateKey) = Ok(ExportPkcs8(keyPair.privateKey))

\* A changePassword from one password to another has succeeded on a Locked
\* vault.
C8_Witness ==
  /\ M.op = "VaultChangePassword" /\ M.pc = "done" /\ M.res.ok
  /\ M.arg.password # M.arg.newPassword
  /\ M.pre.keyPair = Null
  /\ IsUnlocked

WrapPcs == {"w_deriveKey", "w_exportKey", "w_encrypt"}

\* C9: a changePassword whose unlock succeeded and whose wrap failed ends with
\* the wrap's error, Unlocked with the recovered key pair and with the wrapped
\* ciphertext it held before; it reports success only when the wrap completed.
C9_FailedRewrapKeepsKey ==
  (M.op = "VaultChangePassword" /\ M.pc = "done")
  => /\ M.res.ok => M.at = "w_encrypt"
     /\ (M.at \in WrapPcs /\ wrappedPrivateKey = M.pre.wrappedPrivateKey)
          => ~M.res.ok
     /\ (M.at \in WrapPcs /\ ~M.res.ok)
          => /\ M.res.error \in {"OperationError", "TypeError"}
             /\ IsUnlocked
             /\ keyPair = Recovered(M.arg.keyData, M.arg.password).keyPair
             /\ wrappedPrivateKey = M.pre.wrappedPrivateKey

\* A changePassword on a Locked vault has unlocked it and failed in the wrap.
C9_Witness ==
  /\ M.op = "VaultChangePassword" /\ M.pc = "done" /\ ~M.res.ok
  /\ M.at \in WrapPcs
  /\ M.pre.keyPair = Null
  /\ IsUnlocked

\* C10: generateKeyPair ends with the vault Unlocked and holding a pair that is
\* not the one held before and whose keys the vault has never held.
C10_GenerateIsFresh ==
  [][(M.pc = "g_generateKey" /\ task'[Main].pc # "g_generateKey")
       => /\ IsUnlocked'
          /\ keyPair' # keyPair
          /\ keyPair'.privateKey.id \notin held
          /\ keyPair'.publicKey.id \notin held
          /\ keyPair'.publicKey.id = keyPair'.privateKey.id
          /\ (M.op = "generateKeyPair"
                => task'[Main].pc = "done" /\ task'[Main].res.ok)]_vars

\* generateKeyPair has returned on a vault that was Unlocked.
C10_Witness ==
  /\ M.op = "generateKeyPair" /\ M.pc = "done" /\ M.res.ok
  /\ M.pre.keyPair # Null
  /\ IsUnlocked /\ keyPair # M.pre.keyPair
  /\ M.pre.keyPair.privateKey.id \in held

\* C11: nothing excludes a lock() from running while an unlockPrivateKey (or a
\* changePassword) is suspended at an await. The lock() clears the vault and
\* leaves the suspended call where it is, and when that call resumes after its
\* public key import it installs its key pair all the same: the vault is
\* Unlocked again, and a VaultUnlockPrivateKey reports success.
C11_LockDoesNotStopUnlock ==
  [][/\ (task'[Trigger] # task[Trigger] /\ ~Callable(Main))
          => /\ Cleared'
             /\ task'[Main] = [M EXCEPT !.overtaken = TRUE]
     /\ (/\ M.pc = "u_importPublicKey" /\ M.overtaken /\ M.loc.publicKey.ok
         /\ task'[Main] # M)
          => /\ IsUnlocked'
             /\ keyPair' = [privateKey |-> M.loc.privateKey,
                            publicKey |-> M.loc.publicKey.value]
             /\ (M.op = "VaultUnlockPrivateKey"
                   => task'[Main].pc = "done" /\ task'[Main].res.ok)]_vars

\* The trigger's last call is a lock() that ran while the main caller's unlock
\* was suspended; the main caller has made no call since, its unlock has
\* succeeded, and the vault is Unlocked with the wrapping fields the lock()
\* cleared.
C11_Witness ==
  /\ M.op = "VaultUnlockPrivateKey" /\ M.pc = "done" /\ M.res.ok
  /\ M.overtaken
  /\ task[Trigger].op = "lock" /\ task[Trigger].pc = "done"
  /\ M.pre.wrappedPrivateKey # Null
  /\ IsUnlocked
  /\ salt = Null /\ iv = Null /\ wrappedPrivateKey = Null

\* C12: encryptData(m) on a vault holding a matching pair k returns the blob of
\* m for k (a fresh ephemeral pair, a fresh iv), and decryptData of the blob of
\* m for k on a vault holding the private key of k returns m, for the empty
\* message as for any other, whatever happened to the vault in between.
C12_HybridRoundTrip ==
  /\ (/\ M.op = "encryptData" /\ M.pc = "done" /\ M.res.ok
      /\ M.pre.keyPair.publicKey.id = M.pre.keyPair.privateKey.id)
       => \E e \in 1..MaxKeys, n \in 1..MaxNonce :
            M.res.value = BlobOf(e, M.pre.keyPair.privateKey.id, n, M.arg.message)
  /\ (M.op = "decryptData" /\ M.pc = "done" /\ M.pre.keyPair # Null)
       => \A e \in 1..MaxKeys, n \in 1..MaxNonce, m \in Messages :
            M.arg.blob = BlobOf(e, M.pre.keyPair.privateKey.id, n, m)
              => (M.res.ok /\ M.res.value = m)

\* The empty message was encrypted to pair 1 (first draw), the key was wrapped
\* after that (second draw) and uploaded, the vault was locked and unlocked
\* again, and decryptData of that blob has returned the empty message.
C12_Witness ==
  /\ M.op = "decryptData" /\ M.pc = "done" /\ M.res.ok
  /\ M.arg.blob \in blobs
  /\ M.arg.blob = BlobOf(2, 1, 1, "")
  /\ M.res.value = ""
  /\ server # Null
  /\ server.salt = ArrayBufferToBase64(RandomValues(SALT_LENGTH, 2))
  /\ M.pre.salt = Null
  /\ M.pre.keyPair = GenerateKey(1)

\* The blob with a byte changed in one of its three regions.
Tampered(blob) == Variants(blob) \ {blob, Tail(blob)}

\* The pair whose public key the blob was encrypted to.
Recipient(blob) ==
  LET p == blob[2].of.parts
  IN CHOOSE k \in p[3].key.ids : k # p[1].id

\* C13: decryptData of a blob encryptData returned, with a byte changed in its
\* ephemeral key, its iv or its ciphertext, or given unchanged to a vault
\* holding another private key, fails with the decrypt error and no other.
C13_TamperedBlobRejected ==
  (/\ M.op = "decryptData" /\ M.pc = "done" /\ M.pre.keyPair # Null
   /\ \E blob \in blobs :
        \/ M.arg.blob \in Tampered(blob)
        \/ M.arg.blob = blob /\ M.pre.keyPair.privateKey.id # Recipient(blob))
  => (~M.res.ok /\ M.res.error = DecryptFailed)

\* C14: decryptData of a string that does not start with the "uv:" prefix
\* never returns a plaintext.
C14_PrefixRequired ==
  (/\ M.op = "decryptData" /\ M.pc = "done"
   /\ (M.arg.blob = <<>> \/ M.arg.blob[1] # PrefixToken))
  => ~M.res.ok

\* The bytes the blob's body decodes to are fewer than an ephemeral key and an
\* iv take.
UnderLength(blob) ==
  LET combined == Base64ToUint8Array(StripPrefix(blob))
  IN combined.ok /\ combined.value.len < EPHEMERAL_KEY_LENGTH + IV_LENGTH

\* C15: decryptData of a blob whose body is too short for an ephemeral key and
\* an iv fails before its first await, that is before any key import or
\* decryption is issued.
C15_ShortBlobRejectedAtOnce ==
  (M.op = "decryptData" /\ M.pre.keyPair # Null /\ UnderLength(M.arg.blob))
  => (M.pc = "done" /\ ~M.res.ok /\ M.at = "call")

\* C16: exportPublicKeyPEM does not fail, whatever state the vault is in.
C16_ExportPublicKeyAnyState ==
  (M.op = "exportPublicKeyPEM" /\ M.pc = "done") => M.res.ok

\* The wrapped material of the payload is a wrap's, made under password with
\* the salt and the iv of the payload.
WrappedUnder(keyData, password) ==
  LET d == KeyDataDecoded(keyData).value
      w == d.wrappedPrivateKey
  IN /\ w.fmt = "gcm"
     /\ w.key = DeriveKeyFromPassword(password, d.salt)
     /\ w.iv = d.iv

\* C17: a payload exported while the vault holds the ciphertext of a completed
\* wrap (no lock() since) has a PEM, a wrapped key, a salt and an iv that are not
\* empty, the salt decoding to 16 bytes and the iv to 12; and an unlock with a
\* payload whose wrapped key was made under the given password with the
\* payload's salt and iv succeeds and leaves isUnlocked() true.
C17_SetupPayloadComplete ==
  /\ (/\ M.op \in {"exportPayload", "VaultSetupUserCryptoAndSend"}
      /\ M.pc = "done" /\ M.res.ok /\ wrappedPrivateKey # Null)
       => LET p == M.res.value
          IN /\ p.public_key_pem # <<>> /\ p.wrapped_private_key # <<>>
             /\ p.salt # <<>> /\ p.iv # <<>>
             /\ Base64ToUint8Array(p.salt).value.len = SALT_LENGTH
             /\ Base64ToUint8Array(p.iv).value.len = IV_LENGTH
  /\ (/\ M.op = "VaultUnlockPrivateKey" /\ M.pc = "done"
      /\ WrappedUnder(M.arg.keyData, M.arg.password))
       => (M.res.ok /\ IsUnlocked)

\* The payload of a generated pair wrapped under a password (generate, wrap,
\* export) was uploaded, its four fields are not empty, and the unlock with it
\* and that password has succeeded.
C17_Witness ==
  /\ M.op = "VaultUnlockPrivateKey" /\ M.pc = "done" /\ M.res.ok
  /\ IsUnlocked
  /\ M.arg.keyData = server
  /\ \E k \in 1..MaxKeys, n \in 1..MaxNonce :
       server = SetupPayload(k, n, M.arg.password)
  /\ WrappedUnder(server, M.arg.password)
  /\ server.public_key_pem # <<>>
  /\ Base64ToUint8Array(server.salt).value.len = SALT_LENGTH
  /\ Base64ToUint8Array(server.iv).value.len = IV_LENGTH

\* The ephemeral public key and the iv in the frame of a blob.
EphemeralOf(blob) == blob[2].of.parts[1]
IvOf(blob) == blob[2].of.parts[2]

\* C18: the blob an encryptData call returns is none of the blobs returned
\* before, and shares its ephemeral public key and its iv with none of them; its
\* ephemeral key is no key the vault has held.
C18_FreshEphemeralPerBlob ==
  [][(M.pc = "e_exportKey" /\ task'[Main].pc = "done")
       => LET new == task'[Main].res.value
          IN /\ task'[Main].res.ok
             /\ new \notin blobs
             /\ blobs' = blobs \cup {new}
             /\ EphemeralOf(new).id \notin held
             /\ \A old \in blobs : /\ EphemeralOf(new) # EphemeralOf(old)
                                    /\ IvOf(new) # IvOf(old)]_vars

\* Two encryptData calls with the same message on a vault holding the same pair
\* have returned two blobs.
C18_Witness ==
  \E b1 \in blobs, b2 \in blobs :
    /\ b1 # b2
    /\ b1[2].of.parts[3].pt = b2[2].of.parts[3].pt
    /\ Recipient(b1) = Recipient(b2)
    /\ M.op = "encryptData" /\ M.pc = "done" /\ M.res.value = b2

\* C19: a payload exportPayload returns with wrapped material in it is
\* consistent: the wrapped key was encrypted with the payload's salt and iv, and
\* it is the private key of the pair whose public key is in the payload's PEM.
C19_PayloadSelfConsistent ==
  (/\ M.op = "exportPayload" /\ M.pc = "done" /\ M.res.ok
   /\ M.res.value.wrapped_private_key # <<>>)
  => LET p == M.res.value
         d == KeyDataDecoded(p).value
         w == d.wrappedPrivateKey
         spki == Base64ToUint8Array(StripPEM(p.public_key_pem)).value
     IN /\ w.key.salt = d.salt
        /\ w.iv = d.iv
        /\ w.pt = ExportPkcs8(PrivateKey(ImportSpki(spki).value.id))

\* C20: when no call is in flight, salt, iv and wrappedPrivateKey are all
\* absent, or wrappedPrivateKey is the ciphertext made with the held salt and
\* the held iv; and a wrapPrivateKeyWithPassword that failed has left salt and
\* iv as they were.
C20_WrappingFieldsConsistent ==
  Callable(Main)
  => /\ \/ salt = Null /\ iv = Null /\ wrappedPrivateKey = Null
        \/ /\ salt # Null /\ iv # Null /\ wrappedPrivateKey # Null
           /\ wrappedPrivateKey.key.salt = salt
           /\ wrappedPrivateKey.iv = iv
     /\ (M.op = "wrapPrivateKeyWithPassword" /\ ~M.res.ok)
          => (salt = M.pre.salt /\ iv = M.pre.iv)

\* C21: when both callers' wrapPrivateKeyWithPassword calls have completed, the
\* salt, iv and wrapped ciphertext the vault holds unlock under the password of
\* one of the two calls.
C21_InterleavedWrapsStayValid ==
  (\A t \in Tasks :
     /\ task[t].op = "wrapPrivateKeyWithPassword"
     /\ task[t].pc = "done" /\ task[t].res.ok)
  => \E t \in Tasks :
       AesGcmDecrypt(iv, DeriveKeyFromPassword(task[t].arg.password, salt),
                     wrappedPrivateKey).ok

\* The entry points that only read the vault.
ReadOnly ==
  {"isUnlocked", "exportPublicKeyPEM", "exportPrivateKeyPEM", "exportPayload",
   "encryptData", "decryptData"}

\* C22: from its call to its return or failure, a call of isUnlocked,
\* exportPublicKeyPEM, exportPrivateKeyPEM, exportPayload, encryptData or
\* decryptData leaves keyPair, salt, iv and wrappedPrivateKey as they were, and
\* isUnlocked returns true exactly when a private key is held.
C22_ReadOnlyCallsKeepVault ==
  /\ M.op \in ReadOnly => Snapshot = M.pre
  /\ M.op = "isUnlocked"
       => /\ M.pc = "done" /\ M.res.ok
          /\ M.res.value.bool = (keyPair # Null /\ keyPair.privateKey # Null)

\* An encryptData has returned a blob on a vault that holds wrapped material,
\* and the vault is as it was.
C22_Witness ==
  /\ M.op = "encryptData" /\ M.pc = "done" /\ M.res.ok
  /\ M.res.value \in blobs
  /\ M.pre.keyPair # Null /\ M.pre.wrappedPrivateKey # Null
  /\ M.pre.iv # Null
  /\ Snapshot = M.pre

====
